---- MODULE Spec2Model ----
(***************************************************************************)
(* A model of the goverseer supervisor: the control loop (run), the        *)
(* command handlers, the child records and their bodies, the restart       *)
(* strategies and the intensity limit.                                     *)
(*                                                                         *)
(* One goroutine runs the control loop; every launched child body is its   *)
(* own goroutine; Start, Stop and the Add/Remove/Restart calls are made by *)
(* caller goroutines.  A handler of the loop is one action.                *)
(***************************************************************************)
EXTENDS Integers, Sequences, FiniteSets, TLC

(***************************************************************************)
(* Bounds of the model.                                                    *)
(***************************************************************************)
MaxRecords == 4       \* child records ever constructed
MaxInitial == 1       \* specs handed to WithChildren
MaxCmds == 2          \* AddChild / RemoveChild / RestartChild calls
MaxStarts == 1        \* Start() calls
MaxWaits == 1         \* Stop() and Wait() calls recorded
LateCmds == 3         \* the same, of the client that goes on after termination
LateWaits == 2
MaxTime == 1          \* the clock runs from 0 to MaxTime
MaxRestartsCfg == 1   \* WithIntensity(maxRestarts, _)
WindowCfg == 1        \* WithIntensity(_, restartWindow), in clock ticks
BackoffIncrement == 1 \* LinearBackoff(0, increment, max), in clock ticks
BackoffMax == 1
ShutdownTimeoutCfg == 2 \* WithShutdownTimeout(timeout), in clock ticks

Names == {"a", "b"}
RestartTypes == {"Permanent", "Transient", "Temporary"}
Strategies == {"OneForOne", "OneForAll", "RestForOne", "SimpleOneForOne"}
(* A body either blocks until its context is cancelled and then returns    *)
(* nil ("block"), or returns nil, returns an error or panics at a moment   *)
(* of its own choosing ("any").                                            *)
BodyKinds == {"block", "any"}
ChildSpecs == [name : Names, restart : RestartTypes, body : BodyKinds]

ErrSupervisorStopped == "ErrSupervisorStopped"
ErrIntensityExceeded == "ErrIntensityExceeded"
ErrChildNotFound == "ErrChildNotFound"
ErrChildAlreadyExists == "ErrChildAlreadyExists"
Nil == "nil"

commandsCap == 10

VARIABLES
    strategy,        \* s.strategy
    maxRestarts,     \* s.maxRestarts
    restartWindow,   \* s.restartWindow
    recs,            \* the heap of child records; a record's id is its index
    children,        \* s.children: a sequence of record ids
    childMap,        \* s.childMap: name -> record id, 0 when absent
    ctxDone,         \* s.ctx is cancelled
    stopped,         \* s.stopped
    finalErr,        \* s.finalErr
    done,            \* s.done is closed
    pc,              \* where the run() goroutine is
    childExits,      \* the buffered exit channel of run()
    exitsCap,        \* its capacity, len(s.children)+10 when run() began
    commands,        \* s.commands, the buffered command channel
    ncalls,          \* AddChild / RemoveChild / RestartChild calls made so far
    call,            \* the latest of them, with what its response channel delivered
                     \* (late: s.done was closed when the call was made; prev: the
                     \* call before it and what that one returned)
    emitted,         \* what the last step handed to emitEvent, in order
    restartHistory,  \* s.restartHistory
    now,             \* time.Now()
    starts,          \* what each Start() call returned, in call order
    waits,           \* the Stop() and Wait() calls: what each returned
    decisions,       \* when the loop went on to restart: the time of each intensity check passed
    teardownWaited,  \* how long shutdownChildren waited for its poll to succeed
    client,          \* the program using the supervisor: the calls it makes at most
                     \* (cmds, waits), whether it calls Start() after termination,
                     \* and the specs it adds (it removes and restarts their names)
    backoffCall      \* a ComputeDelay call made on a backoff policy directly: the
                     \* policy, the restart count, the random number drawn, the
                     \* build, and the delay returned

vars == <<strategy, maxRestarts, restartWindow, recs, children, childMap,
          ctxDone, stopped, finalErr, done, pc, childExits, exitsCap,
          commands, ncalls, call, emitted, restartHistory, now, starts, waits,
          decisions, teardownWaited, client, backoffCall>>

config == <<strategy, maxRestarts, restartWindow, exitsCap, client, backoffCall>>

(***************************************************************************)
(* Child records.                                                          *)
(***************************************************************************)
(* newChild: a record with its own cancellable context and the exit        *)
(* channel; restartCount is zero.  Beside the fields of the Go struct a    *)
(* record counts what happened to it: the bodies launched (launches), the  *)
(* bodies executing (running), the bodies blocked for ever in their send   *)
(* (stuck) and the ChildExits they hold in that send (blocked), the        *)
(* ChildExits sent (sent), and the ChildStarted and                        *)
(* ChildExited/ChildPanicked notices emitted for it (evStarted, evExit).   *)
newChild(spec) ==
    [spec |-> spec, armed |-> TRUE, restartCount |-> 0, stopped |-> FALSE,
     cancelled |-> FALSE, running |-> 0, stuck |-> 0, launches |-> 0,
     sent |-> 0, evStarted |-> 0, evExit |-> 0, blocked |-> <<>>]

(* WithChildren builds &child{spec: spec}: ctx, cancel and exits are nil.  *)
bareChild(spec) == [newChild(spec) EXCEPT !.armed = FALSE]

RECURSIVE WithChildren(_)
WithChildren(specs) ==
    IF specs = <<>> THEN [recs |-> <<>>, children |-> <<>>,
                          childMap |-> [n \in Names |-> 0]]
    ELSE LET n == Len(specs)
             S == WithChildren(SubSeq(specs, 1, n - 1))
             id == Len(S.recs) + 1
         IN [recs |-> Append(S.recs, bareChild(specs[n])),
             children |-> Append(S.children, id),
             childMap |-> [S.childMap EXCEPT ![specs[n].name] = id]]

(***************************************************************************)
(* The state the handlers of the loop read and write, threaded through     *)
(* them as a record.  panicked: the goroutine running the handler has      *)
(* panicked (a nil cancel function was called); err: what the handler      *)
(* returns; by: the goroutine that runs the handler.                       *)
(***************************************************************************)
Cur(by) ==
    [recs |-> recs, children |-> children, childMap |-> childMap,
     emitted |-> <<>>, restartHistory |-> restartHistory, now |-> now,
     decisions |-> decisions, waited |-> 0,
     ok |-> TRUE, panicked |-> FALSE, err |-> Nil, by |-> by]

Event(type, name, err, stack) ==
    [type |-> type, name |-> name, err |-> err, stack |-> stack]

(* emitEvent: the sinks are called inline by whoever calls emitEvent.      *)
emitEvent(S, e) ==
    [S EXCEPT !.emitted = Append(@, [type |-> e.type, name |-> e.name,
                                      err |-> e.err, stack |-> e.stack,
                                      by |-> S.by])]

(* child.start: one more goroutine runs the body of record r.              *)
start(S, r) ==
    [S EXCEPT !.recs[r].running = @ + 1, !.recs[r].launches = @ + 1]

(* child.stop: set the flag, then call c.cancel; on a record built by      *)
(* WithChildren c.cancel is nil and the call panics.                       *)
stop(S, r) ==
    IF S.panicked THEN S
    ELSE IF S.recs[r].armed
         THEN [S EXCEPT !.recs[r].stopped = TRUE, !.recs[r].cancelled = TRUE]
         ELSE [S EXCEPT !.recs[r].stopped = TRUE, !.panicked = TRUE]

isStopped(S, r) == S.recs[r].stopped

(* startChild without the ChildStarted event.                              *)
startChildSilent(S, r) == start(S, r)

startChild(S, r) ==
    LET S1 == emitEvent(S, Event("ChildStarted", S.recs[r].spec.name, FALSE, FALSE))
    IN start([S1 EXCEPT !.recs[r].evStarted = @ + 1], r)

RECURSIVE stopEach(_, _)
stopEach(S, ids) ==
    IF ids = <<>> THEN S ELSE stopEach(stop(S, Head(ids)), Tail(ids))

NameOf(S, r) == S.recs[r].spec.name

(* The first position of the sequence whose record carries the name, 0     *)
(* when there is none.                                                     *)
indexOfName(S, name) ==
    IF \E i \in 1..Len(S.children) : NameOf(S, S.children[i]) = name
    THEN CHOOSE i \in 1..Len(S.children) :
            /\ NameOf(S, S.children[i]) = name
            /\ \A j \in 1..(i - 1) : NameOf(S, S.children[j]) # name
    ELSE 0

(* The first position of the sequence holding record r, 0 when none.       *)
indexOfRecord(S, r) ==
    IF \E i \in 1..Len(S.children) : S.children[i] = r
    THEN CHOOSE i \in 1..Len(S.children) :
            /\ S.children[i] = r
            /\ \A j \in 1..(i - 1) : S.children[j] # r
    ELSE 0

(***************************************************************************)
(* Backoff: LinearBackoff(0, BackoffIncrement, BackoffMax).                *)
(***************************************************************************)
ComputeDelay(restarts) ==
    LET delay == 0 + restarts * BackoffIncrement
    IN IF delay > BackoffMax THEN BackoffMax ELSE delay

(***************************************************************************)
(* The backoff policies as values.  A time.Duration is a signed integer of *)
(* DurationBits bits; the jitter factor is a multiple of 1/FactorDen and   *)
(* rand.Float64()*2 - 1 a multiple of 1/RandDen in [-1, 1).                *)
(***************************************************************************)
DurationBits == 5
FactorDen == 2
RandDen == 2
MaxRestartCount == 5

MaxDuration == 2^(DurationBits - 1) - 1
MinDuration == -(2^(DurationBits - 1))
Durations == MinDuration..MaxDuration

(* Integer arithmetic on durations wraps around.                           *)
wrapDuration(x) == ((x - MinDuration) % 2^DurationBits) + MinDuration

(* The conversion time.Duration(f) of the float num/den: the fraction is   *)
(* dropped; a value outside the range of the integer type gives a result   *)
(* that depends on the implementation, the smallest integer on amd64 and   *)
(* the nearest end of the range on arm64.                                  *)
Builds == {"amd64", "arm64"}

float64ToDuration(num, den, build) ==
    LET t == IF num >= 0 THEN num \div den ELSE -((-num) \div den)
    IN IF MinDuration <= t /\ t <= MaxDuration THEN t
       ELSE IF build = "arm64" /\ t > 0 THEN MaxDuration
       ELSE MinDuration

RECURSIVE Pow2(_)
Pow2(n) == IF n = 0 THEN 1 ELSE 2 * Pow2(n - 1)

ExponentialBackoff(initial, max) ==
    [kind |-> "exponential", initial |-> initial, max |-> max, delay |-> 0]

ConstantBackoff(delay) ==
    [kind |-> "constant", initial |-> 0, max |-> 0, delay |-> delay]

exponentialComputeDelay(e, restarts, build) ==
    LET delay == float64ToDuration(e.initial * Pow2(restarts), 1, build)
    IN IF delay > e.max THEN e.max ELSE delay

constantComputeDelay(c, restarts) == c.delay

baseComputeDelay(p, restarts, build) ==
    IF p.kind = "exponential" THEN exponentialComputeDelay(p, restarts, build)
    ELSE constantComputeDelay(p, restarts)

(* JitterBackoff clamps the factor to [0, 1].                              *)
JitterBackoff(base, factor) ==
    [base |-> base,
     factor |-> IF factor < 0 THEN 0 ELSE IF factor > FactorDen THEN FactorDen ELSE factor]

jitterComputeDelay(j, restarts, rand, build) ==
    LET baseDelay == baseComputeDelay(j.base, restarts, build)
        jitter == float64ToDuration(baseDelay * j.factor * rand, FactorDen * RandDen, build)
        delay == wrapDuration(baseDelay + jitter)
    IN IF delay < 0 THEN 0 ELSE delay

(***************************************************************************)
(* Exit processing.                                                        *)
(***************************************************************************)
(* shouldRestart with the Transient case restarting whatever the outcome.  *)
shouldRestartAnyOutcome(S, exit) ==
    CASE S.recs[exit.child].spec.restart = "Permanent" -> TRUE
      [] S.recs[exit.child].spec.restart = "Transient" -> TRUE
      [] S.recs[exit.child].spec.restart = "Temporary" -> FALSE
      [] OTHER -> FALSE

shouldRestart(S, exit) ==
    CASE S.recs[exit.child].spec.restart = "Permanent" -> TRUE
      [] S.recs[exit.child].spec.restart = "Transient" -> exit.err \/ exit.panic
      [] S.recs[exit.child].spec.restart = "Temporary" -> FALSE
      [] OTHER -> FALSE

(* checkRestartIntensity letting one restart more through.                 *)
checkRestartIntensityOneMore(S) ==
    LET h == Append(S.restartHistory, S.now)
        cutoff == S.now - restartWindow
        first == IF \E i \in 1..Len(h) : h[i] > cutoff
                 THEN CHOOSE i \in 1..Len(h) :
                        /\ h[i] > cutoff
                        /\ \A j \in 1..(i - 1) : ~(h[j] > cutoff)
                 ELSE 1
        kept == SubSeq(h, first, Len(h))
    IN [S EXCEPT !.restartHistory = kept, !.ok = (Len(kept) <= maxRestarts + 1)]

(* checkRestartIntensity: append now, drop the entries before the first    *)
(* one that is after the cutoff (none is dropped when no entry is after    *)
(* it), and compare the length with maxRestarts.                           *)
checkRestartIntensity(S) ==
    LET h == Append(S.restartHistory, S.now)
        cutoff == S.now - restartWindow
        first == IF \E i \in 1..Len(h) : h[i] > cutoff
                 THEN CHOOSE i \in 1..Len(h) :
                        /\ h[i] > cutoff
                        /\ \A j \in 1..(i - 1) : ~(h[j] > cutoff)
                 ELSE 1
        kept == SubSeq(h, first, Len(h))
    IN [S EXCEPT !.restartHistory = kept, !.ok = (Len(kept) <= maxRestarts)]

(* Replace, from position `from` on, every record of the sequence by a     *)
(* new record of the same spec with restartCount + 1, and index it.        *)
renewFrom(S, from) ==
    LET n == Len(S.children)
        base == Len(S.recs)
        fresh(i) == [newChild(S.recs[S.children[i]].spec)
                        EXCEPT !.restartCount = S.recs[S.children[i]].restartCount + 1]
        idOf(i) == base + (i - from) + 1
        last(nm) == CHOOSE i \in from..n :
                        /\ NameOf(S, S.children[i]) = nm
                        /\ \A j \in (i + 1)..n : NameOf(S, S.children[j]) # nm
    IN [S EXCEPT
          !.recs = @ \o [k \in 1..(n - from + 1) |-> fresh(from + k - 1)],
          !.children = [i \in 1..n |-> IF i < from THEN S.children[i] ELSE idOf(i)],
          !.childMap = [nm \in Names |->
                          IF \E i \in from..n : NameOf(S, S.children[i]) = nm
                          THEN idOf(last(nm)) ELSE S.childMap[nm]]]

RECURSIVE restartEach(_, _)
restartEach(S, ids) ==
    IF ids = <<>> THEN S
    ELSE restartEach(
            startChild(emitEvent(S, Event("ChildRestarted", NameOf(S, Head(ids)),
                                          FALSE, FALSE)), Head(ids)),
            Tail(ids))

restartOne(S, exit) ==
    LET id == Len(S.recs) + 1
        name == NameOf(S, exit.child)
        nc == [newChild(S.recs[exit.child].spec)
                 EXCEPT !.restartCount = S.recs[exit.child].restartCount + 1]
        i == indexOfName(S, name)
        S1 == [S EXCEPT !.recs = Append(@, nc),
                        !.childMap[name] = id,
                        !.children = [j \in 1..Len(S.children) |->
                                        IF j = i THEN id ELSE S.children[j]]]
        S2 == emitEvent(S1, Event("ChildRestarted", name, FALSE, FALSE))
    IN startChild(S2, id)

(* restartAll emitting and starting from the last position back.          *)
restartAllLastFirst(S) ==
    LET S1 == stopEach(S, S.children)
    IN IF S1.panicked THEN S1
       ELSE LET S2 == renewFrom(S1, 1)
                n == Len(S2.children)
            IN restartEach(S2, [i \in 1..n |-> S2.children[n + 1 - i]])

restartAll(S) ==
    LET S1 == stopEach(S, S.children)
    IN IF S1.panicked THEN S1
       ELSE LET S2 == renewFrom(S1, 1)
            IN restartEach(S2, S2.children)

(* restartRestForOne stopping and replacing from the first position on.    *)
restartRestForOneFromFirst(S, exit) ==
    LET failedIndex == indexOfName(S, NameOf(S, exit.child))
        n == Len(S.children)
    IN IF failedIndex = 0 THEN S
       ELSE LET S1 == stopEach(S, SubSeq(S.children, 1, n))
            IN IF S1.panicked THEN S1
               ELSE LET S2 == renewFrom(S1, 1)
                    IN restartEach(S2, SubSeq(S2.children, 1, n))

restartRestForOne(S, exit) ==
    LET failedIndex == indexOfName(S, NameOf(S, exit.child))
        n == Len(S.children)
    IN IF failedIndex = 0 THEN S
       ELSE LET S1 == stopEach(S, SubSeq(S.children, failedIndex, n))
            IN IF S1.panicked THEN S1
               ELSE LET S2 == renewFrom(S1, failedIndex)
                    IN restartEach(S2, SubSeq(S2.children, failedIndex, n))

(* executeStrategy sending OneForOne to restartAll.                        *)
executeStrategyAllForOne(S, exit) ==
    CASE strategy = "OneForOne" -> restartAll(S)
      [] strategy = "OneForAll" -> restartAll(S)
      [] strategy = "RestForOne" -> restartRestForOne(S, exit)
      [] strategy = "SimpleOneForOne" -> restartOne(S, exit)

executeStrategy(S, exit) ==
    CASE strategy = "OneForOne" -> restartOne(S, exit)
      [] strategy = "OneForAll" -> restartAll(S)
      [] strategy = "RestForOne" -> restartRestForOne(S, exit)
      [] strategy = "SimpleOneForOne" -> restartOne(S, exit)

(* failIntensity without the event.                                        *)
failIntensitySilent(S, exit) == [S EXCEPT !.err = ErrIntensityExceeded]

(* The intensity check failed: emit SupervisorFailedIntensity and return   *)
(* ErrIntensityExceeded.                                                   *)
failIntensity(S, exit) ==
    [emitEvent(S, Event("SupervisorFailedIntensity", NameOf(S, exit.child), FALSE, FALSE))
       EXCEPT !.err = ErrIntensityExceeded]

handleChildExit(S, exit) ==
    LET S0 == emitEvent(S, Event(IF exit.panic THEN "ChildPanicked" ELSE "ChildExited",
                                 NameOf(S, exit.child), exit.err, exit.stack))
        S1 == [S0 EXCEPT !.recs[exit.child].evExit = @ + 1]
    IN IF ~shouldRestart(S1, exit) THEN S1
       ELSE LET S2 == checkRestartIntensity(S1)
            IN IF ~S2.ok
               THEN failIntensity(S2, exit)
               ELSE LET delay == ComputeDelay(S2.recs[exit.child].restartCount)
                        S3 == [S2 EXCEPT !.decisions = Append(@, S2.now),
                                         !.now = IF delay > 0 THEN @ + delay ELSE @]
                    IN executeStrategy(S3, exit)

(***************************************************************************)
(* Command handling.                                                       *)
(***************************************************************************)
(* doAddChild without the lookup of the name.                              *)
doAddChildUnchecked(S, spec) ==
    IF stopped THEN [S EXCEPT !.err = ErrSupervisorStopped]
    ELSE LET id == Len(S.recs) + 1
             S1 == [S EXCEPT !.recs = Append(@, newChild(spec)),
                             !.children = Append(@, id),
                             !.childMap[spec.name] = id]
         IN startChild(S1, id)

doAddChild(S, spec) ==
    IF stopped THEN [S EXCEPT !.err = ErrSupervisorStopped]
    ELSE IF S.childMap[spec.name] # 0 THEN [S EXCEPT !.err = ErrChildAlreadyExists]
    ELSE LET id == Len(S.recs) + 1
             S1 == [S EXCEPT !.recs = Append(@, newChild(spec)),
                             !.children = Append(@, id),
                             !.childMap[spec.name] = id]
         IN startChild(S1, id)

(* doRemoveChild answering nil for a name it does not find.                *)
doRemoveChildSilent(S, name) ==
    IF S.childMap[name] = 0 THEN S
    ELSE LET ch == S.childMap[name]
             S1 == stop(S, ch)
             i == indexOfRecord(S1, ch)
         IN IF S1.panicked THEN S1
            ELSE [S1 EXCEPT
                    !.children = IF i = 0 THEN @
                                 ELSE SubSeq(@, 1, i - 1) \o SubSeq(@, i + 1, Len(@)),
                    !.childMap[name] = 0]

doRemoveChild(S, name) ==
    IF S.childMap[name] = 0 THEN [S EXCEPT !.err = ErrChildNotFound]
    ELSE LET ch == S.childMap[name]
             S1 == stop(S, ch)
             i == indexOfRecord(S1, ch)
         IN IF S1.panicked THEN S1
            ELSE [S1 EXCEPT
                    !.children = IF i = 0 THEN @
                                 ELSE SubSeq(@, 1, i - 1) \o SubSeq(@, i + 1, Len(@)),
                    !.childMap[name] = 0]

(* doRestartChild not finding a child whose exit has been processed.       *)
doRestartChildOfLive(S, name) ==
    IF S.childMap[name] = 0 \/ S.recs[S.childMap[name]].evExit > 0
    THEN [S EXCEPT !.err = ErrChildNotFound]
    ELSE LET ch == S.childMap[name]
             S1 == stop(S, ch)
             id == Len(S1.recs) + 1
             i == indexOfName(S1, name)
             S2 == [S1 EXCEPT !.recs = Append(@, newChild(S1.recs[ch].spec)),
                              !.childMap[name] = id,
                              !.children = [j \in 1..Len(S1.children) |->
                                              IF j = i THEN id ELSE S1.children[j]]]
         IN IF S1.panicked THEN S1 ELSE startChild(S2, id)

doRestartChild(S, name) ==
    IF S.childMap[name] = 0 THEN [S EXCEPT !.err = ErrChildNotFound]
    ELSE LET ch == S.childMap[name]
             S1 == stop(S, ch)
             id == Len(S1.recs) + 1
             i == indexOfName(S1, name)
             S2 == [S1 EXCEPT !.recs = Append(@, newChild(S1.recs[ch].spec)),
                              !.childMap[name] = id,
                              !.children = [j \in 1..Len(S1.children) |->
                                              IF j = i THEN id ELSE S1.children[j]]]
         IN IF S1.panicked THEN S1 ELSE startChild(S2, id)

handleCommand(S, cmd) ==
    CASE cmd.action = "add" -> doAddChild(S, cmd.spec)
      [] cmd.action = "remove" -> doRemoveChild(S, cmd.name)
      [] cmd.action = "restart" -> doRestartChild(S, cmd.name)

(***************************************************************************)
(* Teardown.  shutdownChildren stops every child of the sequence and then  *)
(* polls isStopped, the flag child.stop has just set, until all are set or *)
(* the timeout fires: it returns at its first poll, having waited for      *)
(* nothing, or after shutdownTimeout.                                      *)
(***************************************************************************)
allStopped(S) == \A i \in 1..Len(S.children) : isStopped(S, S.children[i])

shutdownChildren(S) ==
    LET S1 == stopEach(S, S.children)
    IN IF S1.panicked \/ allStopped(S1) THEN S1
       ELSE [S1 EXCEPT !.waited = ShutdownTimeoutCfg]

(***************************************************************************)
(* Initial states: New(strategy, WithIntensity, WithBackoff, WithChildren) *)
(* has returned and run() waits in its select.                             *)
(***************************************************************************)
NoCall ==
    [action |-> "none", name |-> "", resp |-> Nil, late |-> FALSE,
     prev |-> [action |-> "none", name |-> "", resp |-> Nil]]

NoBackoffCall ==
    [jitter |-> FALSE, policy |-> JitterBackoff(ConstantBackoff(0), 0), restarts |-> 0,
     rand |-> 0, build |-> "amd64", delay |-> 0, returned |-> FALSE]

(* The names are interchangeable: the initial children are named from      *)
(* InitialNames.                                                           *)
InitialNames == {"a"}
InitialSpecs ==
    UNION {[1..n -> {c \in ChildSpecs : c.name \in InitialNames}] : n \in 0..MaxInitial}

NewSupervisor(strategies, specLists, windows, clients) ==
    /\ client \in clients
    /\ strategy \in strategies
    /\ maxRestarts = MaxRestartsCfg
    /\ restartWindow \in windows
    /\ \E specs \in specLists :
         LET W == WithChildren(specs)
         IN /\ recs = W.recs
            /\ children = W.children
            /\ childMap = W.childMap
            /\ exitsCap = Len(W.children) + 10
    /\ ctxDone = FALSE
    /\ stopped = FALSE
    /\ finalErr = Nil
    /\ done = FALSE
    /\ pc = "select"
    /\ childExits = <<>>
    /\ commands = <<>>
    /\ ncalls = 0
    /\ call = NoCall
    /\ emitted = <<>>
    /\ restartHistory = <<>>
    /\ now = 0
    /\ starts = <<>>
    /\ waits = <<>>
    /\ decisions = <<>>
    /\ teardownWaited = 0

(* A supervisor on whose backoff policy nobody calls ComputeDelay directly. *)
InitWith(strategies, specLists, windows, clients) ==
    /\ NewSupervisor(strategies, specLists, windows, clients)
    /\ backoffCall = NoBackoffCall

(* The supervisors checked by default: any strategy, and initial children  *)
(* that are Permanent.                                                     *)
DefaultSpecs ==
    {specs \in InitialSpecs : \A i \in 1..Len(specs) : specs[i].restart = "Permanent"}

(* The client that makes Start() its first call and makes few calls, and   *)
(* the one that goes on calling after the supervisor has terminated.       *)
UsualClient ==
    [cmds |-> MaxCmds, waits |-> MaxWaits, lateStart |-> FALSE, specs |-> ChildSpecs]

(* The clients that use one name: the one that makes more Add / Remove /   *)
(* Restart calls, and the one that goes on after termination.              *)
OneNameSpecs == {c \in ChildSpecs : c.name \in InitialNames /\ c.body = "any"}
ManyCallsClient ==
    [cmds |-> LateCmds, waits |-> MaxWaits, lateStart |-> FALSE, specs |-> OneNameSpecs]
LateClient ==
    [cmds |-> MaxCmds, waits |-> LateWaits, lateStart |-> TRUE, specs |-> OneNameSpecs]

Init == InitWith(Strategies, DefaultSpecs, {WindowCfg}, {UsualClient})

Alive == pc # "crashed"

(* What a handler leaves behind in the supervisor's state.                 *)
Commit(S) ==
    /\ recs' = S.recs
    /\ children' = S.children
    /\ childMap' = S.childMap
    /\ emitted' = S.emitted
    /\ restartHistory' = S.restartHistory
    /\ now' = S.now
    /\ decisions' = S.decisions

(***************************************************************************)
(* The callers.                                                            *)
(***************************************************************************)
(* Start(): refuse when s.stopped, else startChild every record of         *)
(* s.children, in the caller's goroutine.                                  *)
StartCall ==
    /\ Alive
    /\ Len(starts) < MaxStarts
    /\ IF stopped
       THEN /\ starts' = Append(starts, ErrSupervisorStopped)
            /\ emitted' = <<>>
            /\ UNCHANGED recs
       ELSE LET RECURSIVE startEach(_, _)
                startEach(S, ids) ==
                    IF ids = <<>> THEN S
                    ELSE startEach(startChild(S, Head(ids)), Tail(ids))
                S == startEach(Cur("caller"), children)
            IN /\ recs' = S.recs
               /\ emitted' = S.emitted
               /\ starts' = Append(starts, Nil)
    /\ UNCHANGED <<config, teardownWaited, children, childMap, ctxDone, stopped, finalErr, done,
                   pc, childExits, commands, ncalls, call, restartHistory, now, waits, decisions>>

(* Start() is the first call made on the supervisor, or, by the client     *)
(* that goes on after termination, it is made once the completion signal   *)
(* is released.                                                            *)
Start == ((ncalls = 0 /\ waits = <<>>) \/ (client.lateStart /\ done)) /\ StartCall

(* AddChild / RemoveChild / RestartChild: send the command; the caller     *)
(* then blocks on its response channel.  The calls are made one after the  *)
(* other: the loop handles the commands one at a time and in order, so     *)
(* callers queueing at once change nothing in what the loop does.  The     *)
(* names being interchangeable, the first name ever used is one of         *)
(* InitialNames.                                                           *)
Submit(cmd) ==
    /\ Alive
    /\ ncalls < client.cmds
    /\ call.resp # "pending"
    /\ cmd.name \in InitialNames \/ ncalls > 0 \/ recs # <<>>
    /\ Len(commands) < commandsCap
    /\ commands' = Append(commands, cmd)
    /\ ncalls' = ncalls + 1
    /\ call' = [action |-> cmd.action, name |-> cmd.name, resp |-> "pending",
                late |-> done,
                prev |-> [action |-> call.action, name |-> call.name, resp |-> call.resp]]
    /\ emitted' = <<>>
    /\ UNCHANGED <<config, teardownWaited, recs, children, childMap, ctxDone, stopped, finalErr,
                   done, pc, childExits, restartHistory, now, starts, waits, decisions>>

(* The spec field of a command that carries none.                          *)
NoSpec == [name |-> "", restart |-> "", body |-> ""]

AddChild ==
    \E spec \in client.specs :
        Submit([action |-> "add", name |-> spec.name, spec |-> spec])

RemoveChild ==
    \E name \in {c.name : c \in client.specs} :
        Submit([action |-> "remove", name |-> name, spec |-> NoSpec])

RestartChild ==
    \E name \in {c.name : c \in client.specs} :
        Submit([action |-> "restart", name |-> name, spec |-> NoSpec])

(* Stop(): s.cancel(), then wait for s.done.  Wait(): wait for s.done.     *)
StopCall ==
    /\ Alive
    /\ Len(waits) < client.waits
    /\ ctxDone' = TRUE
    /\ waits' = Append(waits, [op |-> "stop", ret |-> "pending"])
    /\ emitted' = <<>>
    /\ UNCHANGED <<config, teardownWaited, recs, children, childMap, stopped, finalErr, done, pc,
                   childExits, commands, ncalls, call, restartHistory, now, starts, decisions>>

(* Stop() returns s.finalErr once s.done is closed.                        *)
StopReturn ==
    /\ Alive
    /\ done
    /\ \E w \in 1..Len(waits) :
         /\ waits[w].ret = "pending"
         /\ waits' = [waits EXCEPT ![w].ret = finalErr]
    /\ emitted' = <<>>
    /\ UNCHANGED <<config, teardownWaited, recs, children, childMap, ctxDone, stopped, finalErr, done,
                   pc, childExits, commands, ncalls, call, restartHistory, now, starts, decisions>>

(* Wait() returning nil whatever s.finalErr holds.                         *)
WaitReturnsNil ==
    /\ Alive
    /\ done
    /\ Len(waits) < client.waits
    /\ waits' = Append(waits, [op |-> "wait", ret |-> Nil])
    /\ emitted' = <<>>
    /\ UNCHANGED <<config, teardownWaited, recs, children, childMap, ctxDone, stopped,
                   finalErr, done, pc, childExits, commands, ncalls, call,
                   restartHistory, now, starts, decisions>>

(* Wait(): blocked until s.done is closed, it has no effect; it returns    *)
(* s.finalErr.                                                             *)
Wait ==
    /\ Alive
    /\ done
    /\ Len(waits) < client.waits
    /\ waits' = Append(waits, [op |-> "wait", ret |-> finalErr])
    /\ emitted' = <<>>
    /\ UNCHANGED <<config, teardownWaited, recs, children, childMap, ctxDone, stopped, finalErr, done,
                   pc, childExits, commands, ncalls, call, restartHistory, now, starts, decisions>>

(* Time passes.  The clock is read by checkRestartIntensity alone, so it   *)
(* is started with the first timestamp taken and followed while the loop   *)
(* can take another.                                                       *)
Tick ==
    /\ pc = "select"
    /\ restartHistory # <<>>
    /\ now < MaxTime
    /\ now' = now + 1
    /\ emitted' = <<>>
    /\ UNCHANGED <<config, teardownWaited, recs, children, childMap, ctxDone, stopped, finalErr, done,
                   pc, childExits, commands, ncalls, call, restartHistory, starts, waits, decisions>>

(***************************************************************************)
(* The child bodies (runWithRecovery).                                     *)
(***************************************************************************)
(* The context the body of record r sees is cancelled.                     *)
ctxCancelled(r) == recs[r].cancelled \/ ctxDone

Outcomes == {[err |-> FALSE, panic |-> FALSE, stack |-> FALSE],
             [err |-> TRUE, panic |-> FALSE, stack |-> FALSE],
             [err |-> TRUE, panic |-> TRUE, stack |-> TRUE]}

(* The body of a record built by newChild returns or panics, and           *)
(* runWithRecovery sends one ChildExit on the exit channel.                *)
BodyExit ==
    /\ Alive
    /\ \E r \in 1..Len(recs), o \in Outcomes :
         /\ recs[r].armed
         /\ recs[r].running > 0
         /\ \/ recs[r].spec.body = "any"
            \/ recs[r].spec.body = "block" /\ ctxCancelled(r) /\ ~o.err /\ ~o.panic
         /\ Len(childExits) < exitsCap
         /\ childExits' = Append(childExits, [child |-> r, err |-> o.err,
                                              panic |-> o.panic, stack |-> o.stack])
         /\ recs' = [recs EXCEPT ![r].running = @ - 1, ![r].sent = @ + 1]
    /\ emitted' = <<>>
    /\ UNCHANGED <<config, teardownWaited, children, childMap, ctxDone, stopped, finalErr, done, pc,
                   commands, ncalls, call, restartHistory, now, starts, waits, decisions>>

(* The body of a record built by WithChildren gets a nil context and a nil *)
(* exit channel: a body that waits for the cancellation panics in its call *)
(* of ctx.Done(), and whether the body returns or panics, the send of its  *)
(* ChildExit blocks for ever.                                              *)
BodyStuck ==
    /\ Alive
    /\ \E r \in 1..Len(recs), o \in Outcomes :
         /\ ~recs[r].armed
         /\ recs[r].running > 0
         /\ recs[r].spec.body = "block" => o.panic
         /\ recs' = [recs EXCEPT ![r].running = @ - 1, ![r].stuck = @ + 1,
                                 ![r].blocked = Append(@, [child |-> r, err |-> o.err,
                                                           panic |-> o.panic,
                                                           stack |-> o.stack])]
    /\ emitted' = <<>>
    /\ UNCHANGED <<config, teardownWaited, children, childMap, ctxDone, stopped, finalErr, done, pc,
                   childExits, commands, ncalls, call, restartHistory, now, starts, waits, decisions>>

(***************************************************************************)
(* The control loop (run).                                                 *)
(***************************************************************************)
(* The cancellation case releasing the completion signal before teardown.  *)
LoopCancelReleasing ==
    /\ pc = "select"
    /\ ctxDone
    /\ emitted' = emitEvent(Cur("loop"), Event("SupervisorStopping", "", FALSE, FALSE)).emitted
    /\ pc' = "teardown"
    /\ done' = TRUE
    /\ UNCHANGED <<config, teardownWaited, recs, children, childMap, ctxDone, stopped, finalErr,
                   childExits, commands, ncalls, call, restartHistory, now, starts, waits, decisions>>

(* case <-s.ctx.Done()                                                     *)
LoopCancel ==
    /\ pc = "select"
    /\ ctxDone
    /\ emitted' = emitEvent(Cur("loop"), Event("SupervisorStopping", "", FALSE, FALSE)).emitted
    /\ pc' = "teardown"
    /\ UNCHANGED <<config, teardownWaited, recs, children, childMap, ctxDone, stopped, finalErr, done,
                   childExits, commands, ncalls, call, restartHistory, now, starts, waits, decisions>>

(* case cmd := <-s.commands                                                *)
LoopCommand ==
    /\ pc = "select"
    /\ commands # <<>>
    /\ \E S \in {handleCommand(Cur("loop"), Head(commands))} :
          /\ Len(S.recs) <= MaxRecords
          /\ Commit(S)
          /\ commands' = Tail(commands)
          /\ IF S.panicked
             THEN /\ pc' = "crashed"
                  /\ done' = TRUE
                  /\ UNCHANGED call
             ELSE /\ call' = [call EXCEPT !.resp = S.err]
                  /\ UNCHANGED <<pc, done>>
    /\ UNCHANGED <<config, teardownWaited, ctxDone, stopped, finalErr, childExits, ncalls, starts, waits>>

(* case exit := <-childExits                                               *)
LoopExit ==
    /\ pc = "select"
    /\ childExits # <<>>
    /\ \E S \in {handleChildExit(Cur("loop"), Head(childExits))} :
          /\ Len(S.recs) <= MaxRecords
          /\ S.now <= MaxTime
          /\ Commit(S)
          /\ childExits' = Tail(childExits)
          /\ IF S.panicked
             THEN /\ pc' = "crashed"
                  /\ done' = TRUE
                  /\ UNCHANGED <<finalErr, stopped, ctxDone>>
             ELSE IF S.err # Nil
             THEN /\ finalErr' = S.err
                  /\ stopped' = TRUE
                  /\ ctxDone' = TRUE
                  /\ pc' = "teardown"
                  /\ UNCHANGED done
             ELSE UNCHANGED <<finalErr, stopped, ctxDone, pc, done>>
    /\ UNCHANGED <<config, teardownWaited, commands, ncalls, call, starts, waits>>

(* The deferred calls of run(): shutdownChildren, then close(s.done).      *)
Teardown ==
    /\ pc = "teardown"
    /\ \E S \in {shutdownChildren(Cur("loop"))} :
          /\ recs' = S.recs
          /\ teardownWaited' = S.waited
          /\ pc' = IF S.panicked THEN "crashed" ELSE "done"
          /\ done' = TRUE
    /\ emitted' = <<>>
    /\ UNCHANGED <<config, children, childMap, ctxDone, stopped, finalErr, childExits,
                   commands, ncalls, call, restartHistory, now, starts, waits, decisions>>

Next ==
    \/ Start
    \/ AddChild
    \/ RemoveChild
    \/ RestartChild
    \/ StopCall
    \/ StopReturn
    \/ Wait
    \/ Tick
    \/ BodyExit
    \/ BodyStuck
    \/ LoopCancel
    \/ LoopCommand
    \/ LoopExit
    \/ Teardown

Spec == Init /\ [][Next]_vars

(* A OneForOne supervisor with no initial child or one Permanent initial   *)
(* child, used by a client that makes more calls or goes on after          *)
(* termination.                                                            *)
LateInit ==
    InitWith({"OneForOne"},
             {<<>>, <<[name |-> "a", restart |-> "Permanent", body |-> "any"]>>},
             {WindowCfg}, {ManyCallsClient, LateClient})

LateSpec == LateInit /\ [][Next]_vars

(* A OneForOne supervisor given no initial child or one Permanent initial  *)
(* child, under a scheduler that runs the loop goroutine whenever one of   *)
(* its select cases is ready and lets a body that has returned reach its   *)
(* send.                                                                   *)
FairInit ==
    InitWith({"OneForOne"},
             {<<>>, <<[name |-> "a", restart |-> "Permanent", body |-> "any"]>>},
             {WindowCfg}, {UsualClient})

(* A step of the goroutine that runs run(), as its program counter and its *)
(* two channels show it: out of the select it takes the cancellation case, *)
(* a command or an exit, and from teardown it ends.                        *)
LoopStep ==
    \/ /\ pc = "select"
       /\ \/ /\ ctxDone
             /\ pc' = "teardown"
             /\ UNCHANGED <<commands, childExits>>
          \/ /\ commands # <<>>
             /\ commands' = Tail(commands)
             /\ pc' \in {"select", "crashed"}
             /\ UNCHANGED childExits
          \/ /\ childExits # <<>>
             /\ childExits' = Tail(childExits)
             /\ pc' \in {"select", "teardown", "crashed"}
             /\ UNCHANGED commands
    \/ /\ pc = "teardown"
       /\ pc' \in {"done", "crashed"}
       /\ UNCHANGED <<commands, childExits>>

FairSpec ==
    /\ FairInit
    /\ [][Next]_vars
    /\ WF_<<pc, commands, childExits>>(LoopStep)
    /\ WF_vars(BodyStuck)
    /\ WF_vars(StopReturn)

(***************************************************************************)
(* The steps of the loop, as seen from outside.                            *)
(***************************************************************************)
(* The loop takes the exit at the head of its exit channel and handles it. *)
ExitStep == pc = "select" /\ childExits # <<>> /\ childExits' = Tail(childExits)

(* The loop takes the command at the head of s.commands and handles it.    *)
CommandStep == pc = "select" /\ commands # <<>> /\ commands' = Tail(commands)

(* The step went past shouldRestart: it either went on to restart or       *)
(* failed the intensity check.                                             *)
RestartDecided ==
    \/ Len(decisions') > Len(decisions)
    \/ finalErr = Nil /\ finalErr' = ErrIntensityExceeded

(* The step constructed no record, launched no body and left the sequence  *)
(* and the index alone.                                                    *)
NothingRestarted ==
    /\ Len(recs') = Len(recs)
    /\ \A r \in 1..Len(recs) : recs'[r].launches = recs[r].launches
    /\ children' = children
    /\ childMap' = childMap

(* The step neither stopped record r nor launched a body of it.            *)
Untouched(r) ==
    /\ recs'[r].stopped = recs[r].stopped
    /\ recs'[r].cancelled = recs[r].cancelled
    /\ recs'[r].launches = recs[r].launches
    /\ recs'[r].running = recs[r].running
    /\ recs'[r].restartCount = recs[r].restartCount

(* The step stopped the record at position i of the sequence and put in    *)
(* its place a record it constructed from the same spec and started.       *)
Replaced(i) ==
    /\ recs'[children[i]].stopped
    /\ children'[i] > Len(recs)
    /\ recs'[children'[i]].spec = recs[children[i]].spec
    /\ recs'[children'[i]].launches = 1

(* The step went on to restart: the exit warranted it and the intensity    *)
(* check passed.                                                           *)
Restarting == Len(decisions') > Len(decisions)

(***************************************************************************)
(* C1: when a child's exit is processed the loop decides to restart        *)
(* exactly when the child is Permanent, or Transient and the exit carries  *)
(* an error or a panic; a Temporary child's exit never restarts anything.  *)
(***************************************************************************)
C1_RestartDecision ==
    [][ExitStep =>
        LET exit == Head(childExits)
            rt == recs[exit.child].spec.restart
            failed == exit.err \/ exit.panic
        IN /\ RestartDecided <=> (rt = "Permanent" \/ (rt = "Transient" /\ failed))
           /\ rt = "Temporary" => NothingRestarted]_vars

(* The exits of a Transient child have been processed both ways: one that  *)
(* failed was followed by a restart, and one that did not left the child   *)
(* without a successor.                                                    *)
C1_Witness ==
    /\ \E i, j \in 1..Len(emitted) :
         /\ i < j
         /\ emitted[i].type \in {"ChildExited", "ChildPanicked"}
         /\ emitted[i].err
         /\ emitted[j].type = "ChildRestarted"
         /\ \E r \in 1..Len(recs) :
              /\ recs[r].spec.name = emitted[i].name
              /\ recs[r].spec.restart = "Transient"
              /\ recs[r].evExit > 0
    /\ \E r \in 1..Len(recs) :
         /\ recs[r].spec.restart = "Temporary"
         /\ recs[r].evExit > 0

(***************************************************************************)
(* C2: a Permanent child of the initial children list that Start() has     *)
(* started and whose body has returned is eventually run again, unless the *)
(* intensity limit is exceeded or the supervisor is stopped.               *)
(***************************************************************************)
C2_InitialChildRunAgain ==
    \A r \in 1..MaxInitial :
        (/\ r <= Len(recs)
         /\ ~recs[r].armed
         /\ recs[r].spec.restart = "Permanent"
         /\ recs[r].launches = 1
         /\ recs[r].running = 0)
        ~> (\/ \E q \in 1..Len(recs) :
                 /\ recs[q].spec.name = recs[r].spec.name
                 /\ recs[q].launches > (IF q = r THEN 1 ELSE 0)
            \/ finalErr = ErrIntensityExceeded
            \/ ctxDone
            \/ pc # "select")

(***************************************************************************)
(* C3: under OneForOne and SimpleOneForOne, processing the exit of one     *)
(* child never stops, replaces or starts a child of another name: their    *)
(* records, their places in the sequence and their index entries stay as   *)
(* they were, and every record constructed carries the exiting name.       *)
(***************************************************************************)
C3_OneForOneFrame ==
    [][ExitStep /\ strategy \in {"OneForOne", "SimpleOneForOne"} =>
        LET nm == recs[Head(childExits).child].spec.name
        IN /\ \A r \in 1..Len(recs) : recs[r].spec.name # nm => recs'[r] = recs[r]
           /\ \A r \in (Len(recs) + 1)..Len(recs') : recs'[r].spec.name = nm
           /\ \A n \in Names \ {nm} : childMap'[n] = childMap[n]
           /\ Len(children') = Len(children)
           /\ \A i \in 1..Len(children) :
                recs[children[i]].spec.name # nm => children'[i] = children[i]]_vars

(* A child has just been restarted under OneForOne while a sibling that    *)
(* blocks until cancelled is still in its first run.                       *)
C3_Witness ==
    /\ strategy = "OneForOne"
    /\ \E k \in 1..Len(emitted) :
         /\ emitted[k].type = "ChildRestarted"
         /\ \E i \in 1..Len(children) :
              LET r == children[i]
              IN /\ recs[r].spec.name # emitted[k].name
                 /\ recs[r].spec.body = "block"
                 /\ recs[r].armed
                 /\ recs[r].launches = 1
                 /\ recs[r].running = 1
                 /\ ~recs[r].stopped

(***************************************************************************)
(* C4: under OneForAll, when an exit warrants a restart and the intensity  *)
(* check passes, every child of the sequence is stopped, every slot gets a *)
(* new record built from the same spec at the same position, and every     *)
(* replacement is started.                                                 *)
(***************************************************************************)
C4_OneForAllReplacesAll ==
    [][ExitStep /\ strategy = "OneForAll" /\ Restarting =>
        /\ Len(children') = Len(children)
        /\ \A i \in 1..Len(children) : Replaced(i)]_vars

RestartsWithin(t) == {j \in 1..Len(decisions) : decisions[j] > t - restartWindow}

C6_IntensityLimit ==
    /\ [](/\ \A i \in 1..Len(decisions) :
               Cardinality({j \in 1..i : decisions[j] > decisions[i] - restartWindow})
                  <= maxRestarts
           /\ finalErr \in {Nil, ErrIntensityExceeded}
           /\ \A w \in 1..Len(waits) : waits[w].ret \in {"pending", finalErr})
    /\ [][ExitStep =>
           IF ~RestartDecided THEN finalErr' = finalErr
           ELSE IF Cardinality(RestartsWithin(now)) >= maxRestarts
           THEN /\ NothingRestarted
                /\ ~Restarting
                /\ finalErr' = ErrIntensityExceeded
                /\ stopped' /\ ctxDone' /\ pc' = "teardown"
           ELSE Restarting /\ finalErr' = finalErr]_vars

(* The limit was exceeded by the exits of two different children, and a    *)
(* Stop() or Wait() has returned ErrIntensityExceeded.                     *)
C6_Witness ==
    /\ finalErr = ErrIntensityExceeded
    /\ Len(decisions) = maxRestarts
    /\ \E w \in 1..Len(waits) : waits[w].ret = ErrIntensityExceeded
    /\ \E q, r \in 1..Len(recs) :
         /\ recs[q].spec.name # recs[r].spec.name
         /\ recs[q].evExit > 0
         /\ recs[r].evExit > 0
         /\ recs[q].spec.restart = "Permanent"
         /\ recs[r].spec.restart = "Permanent"

(***************************************************************************)
(* C7: the step that sets finalErr to ErrIntensityExceeded emits           *)
(* SupervisorFailedIntensity while the completion signal is still          *)
(* unreleased, and from that event on no child is restarted: no            *)
(* ChildRestarted or ChildStarted follows, no record is constructed and no *)
(* body is launched.                                                       *)
(***************************************************************************)
C7_FailureEventThenNoRestart ==
    [][/\ (finalErr = Nil /\ finalErr' = ErrIntensityExceeded) =>
            /\ ~done /\ ~done'
            /\ NothingRestarted
            /\ \E k \in 1..Len(emitted') :
                 /\ emitted'[k].type = "SupervisorFailedIntensity"
                 /\ \A j \in (k + 1)..Len(emitted') :
                      emitted'[j].type \notin {"ChildRestarted", "ChildStarted"}
       /\ finalErr = ErrIntensityExceeded =>
            /\ finalErr' = finalErr
            /\ NothingRestarted
            /\ \A j \in 1..Len(emitted') :
                 emitted'[j].type \notin {"ChildRestarted", "ChildStarted"}]_vars

(* The failing step has just been taken, and later the completion signal   *)
(* is released.                                                            *)
C7_Witness ==
    /\ finalErr = ErrIntensityExceeded
    /\ \E k \in 1..Len(emitted) : emitted[k].type = "SupervisorFailedIntensity"
    /\ ~done

(***************************************************************************)
(* C8: at most one record per name is alive, that is has a body running    *)
(* and its cancellation not fired.                                         *)
(***************************************************************************)
AliveRecord(r) ==
    /\ recs[r].running > 0
    /\ ~(recs[r].armed /\ ctxCancelled(r))

C8_OneAlivePerName ==
    \A n \in Names :
        Cardinality({r \in 1..Len(recs) : recs[r].spec.name = n /\ AliveRecord(r)}) <= 1

(***************************************************************************)
(* C9: the sequence and the index hold the same set of records, and no     *)
(* name occurs twice in the sequence.                                      *)
(***************************************************************************)
C9_SequenceMatchesIndex ==
    /\ {children[i] : i \in 1..Len(children)} = {childMap[n] : n \in Names} \ {0}
    /\ \A i, j \in 1..Len(children) :
         i # j => recs[children[i]].spec.name # recs[children[j]].spec.name

(***************************************************************************)
(* C10: an add command whose name is registered is answered with           *)
(* ErrChildAlreadyExists and changes nothing: no record is constructed or  *)
(* changed, the sequence and the index stay as they were, and no event is  *)
(* emitted.                                                                *)
(***************************************************************************)
C10_AddExistingName ==
    [][(/\ CommandStep
        /\ Head(commands).action = "add"
        /\ childMap[Head(commands).name] # 0) =>
           /\ call'.resp = ErrChildAlreadyExists
           /\ emitted' = <<>>
           /\ UNCHANGED <<recs, children, childMap, restartHistory, childExits,
                          stopped, finalErr, ctxDone, done, pc>>]_vars

(* An AddChild of a name that was registered has been answered.            *)
C10_Witness ==
    /\ call.action = "add"
    /\ call.resp = ErrChildAlreadyExists
    /\ childMap[call.name] # 0
    /\ recs[childMap[call.name]].running > 0

(***************************************************************************)
(* C11: a remove or restart command whose name has no entry in the index   *)
(* is answered with ErrChildNotFound and changes nothing: the sequence,    *)
(* the index and every record stay as they were, and no event is emitted.  *)
(***************************************************************************)
C11_UnknownName ==
    [][(/\ CommandStep
        /\ Head(commands).action \in {"remove", "restart"}
        /\ childMap[Head(commands).name] = 0) =>
           /\ call'.resp = ErrChildNotFound
           /\ emitted' = <<>>
           /\ UNCHANGED <<recs, children, childMap, restartHistory, childExits,
                          stopped, finalErr, ctxDone, done, pc>>]_vars

(* A RemoveChild of a name the supervisor does not hold has been answered  *)
(* while a child of another name is running.                               *)
C11_Witness ==
    /\ call.action = "remove"
    /\ call.resp = ErrChildNotFound
    /\ childMap[call.name] = 0
    /\ \E i \in 1..Len(children) :
         /\ recs[children[i]].armed
         /\ recs[children[i]].running = 1
         /\ ~recs[children[i]].stopped

(***************************************************************************)
(* C12: once RemoveChild(n) has returned nil, the AddChild of the same     *)
(* name n that follows it on the running supervisor is not answered with   *)
(* ErrChildAlreadyExists, whenever the exit of the removed record reaches  *)
(* the loop.                                                               *)
(***************************************************************************)
C12_AddAfterRemove ==
    [][(/\ CommandStep
        /\ Head(commands).action = "add"
        /\ call.prev.action = "remove"
        /\ call.prev.name = Head(commands).name
        /\ call.prev.resp = Nil) =>
           call'.resp # ErrChildAlreadyExists]_vars

(***************************************************************************)
(* C13: the supervisor never leaves the stopped state, and once it has     *)
(* terminated (by Stop(), by cancellation or by the intensity limit) a     *)
(* Start() returns ErrSupervisorStopped and launches no child.             *)
(***************************************************************************)
C13_StartAfterStopped ==
    [][/\ stopped => stopped'
       /\ (done /\ Len(starts') > Len(starts)) =>
            /\ starts'[Len(starts')] = ErrSupervisorStopped
            /\ \A r \in 1..Len(recs) : recs'[r].launches = recs[r].launches]_vars

(***************************************************************************)
(* C14: an AddChild, RemoveChild or RestartChild made after the supervisor *)
(* has terminated returns ErrSupervisorStopped to its caller.              *)
(***************************************************************************)
C14_CallAfterStopped ==
    (call.late /\ call.resp = "pending") ~> (call.resp = ErrSupervisorStopped)

(***************************************************************************)
(* C15: once the completion signal is released finalErr never changes,     *)
(* and all the Stop() and Wait() calls that have returned, in whatever     *)
(* number and order, returned that same finalErr.                          *)
(***************************************************************************)
C15_FinalErrFixed ==
    /\ [][done => (done' /\ finalErr' = finalErr)]_vars
    /\ [](\A v, w \in 1..Len(waits) :
            (waits[v].ret # "pending" /\ waits[w].ret # "pending") =>
                (waits[v].ret = waits[w].ret /\ waits[w].ret = finalErr))

(* After an intensity failure a Wait() and then a Stop() have both         *)
(* returned ErrIntensityExceeded.                                          *)
C15_Witness ==
    /\ Len(waits) = 2
    /\ waits[1].op = "wait"
    /\ waits[2].op = "stop"
    /\ waits[1].ret = ErrIntensityExceeded
    /\ waits[2].ret = ErrIntensityExceeded

(***************************************************************************)
(* C16: when every child only blocks until cancelled, a Stop() returns     *)
(* nil, whichever of the cancellation, the commands and the child exits    *)
(* the loop handles first.                                                 *)
(***************************************************************************)
C16_StopReturnsNil ==
    (\A r \in 1..Len(recs) : recs[r].spec.body = "block") =>
        \A w \in 1..Len(waits) :
            waits[w].op = "stop" => waits[w].ret \in {"pending", Nil}

(***************************************************************************)
(* C17: for every record whose body was started and has returned, one      *)
(* ChildExit is delivered on the exit channel, and never more than one.    *)
(***************************************************************************)
C17_ExactlyOneExit ==
    /\ [](\A r \in 1..Len(recs) : recs[r].sent <= 1)
    /\ \A r \in 1..MaxRecords :
         (r <= Len(recs) /\ recs[r].launches > 0 /\ recs[r].running = 0)
            ~> (r <= Len(recs) /\ recs[r].sent = 1)

(***************************************************************************)
(* C18: with a single child that is Transient and returned no error, or    *)
(* Temporary, the child is run once and the completion signal is released  *)
(* without error, without any Stop() or cancellation.                      *)
(***************************************************************************)
C18_SingleChildDone ==
    (/\ Len(recs) = 1
     /\ recs[1].launches = 1
     /\ recs[1].evExit = 1
     /\ ~ctxDone
     /\ Len(emitted) = 1
     /\ emitted[1].type = "ChildExited"
     /\ \/ recs[1].spec.restart = "Temporary"
        \/ recs[1].spec.restart = "Transient" /\ ~emitted[1].err)
    ~> (\/ done /\ finalErr = Nil /\ Len(recs) = 1 /\ recs[1].launches = 1
        \/ ctxDone
        \/ Len(recs) > 1)

(***************************************************************************)
(* C19: a Stop() has returned only when teardown has cancelled every       *)
(* record of the sequence and either every body of them has exited or      *)
(* shutdownChildren has waited for shutdownTimeout.                        *)
(***************************************************************************)
C19_StopAfterBodiesExit ==
    \A w \in 1..Len(waits) :
        (waits[w].op = "stop" /\ waits[w].ret # "pending") =>
            /\ \A i \in 1..Len(children) : recs[children[i]].cancelled
            /\ \/ \A i \in 1..Len(children) : recs[children[i]].running = 0
               \/ teardownWaited >= ShutdownTimeoutCfg

(***************************************************************************)
(* C20: every Stop() eventually returns, with initial children and with    *)
(* added children alike.                                                   *)
(***************************************************************************)
C20_StopReturns ==
    \A w \in 1..MaxWaits :
        (w <= Len(waits) /\ waits[w].op = "stop" /\ waits[w].ret = "pending")
            ~> (w <= Len(waits) /\ waits[w].ret # "pending")

(***************************************************************************)
(* C21: a panic of a child body is recovered and its ChildExit is sent: a  *)
(* ChildExit carries a stack trace exactly when it reports a panic, and    *)
(* then it carries an error; the loop emits ChildPanicked for it and       *)
(* ChildExited for any other exit, and goes on to a restart decision when  *)
(* the child that panicked is Permanent or Transient.                      *)
(***************************************************************************)
C21_PanicYieldsExit ==
    /\ [](\A k \in 1..Len(childExits) :
            /\ childExits[k].panic => childExits[k].err
            /\ childExits[k].stack <=> childExits[k].panic)
    /\ [][ExitStep =>
            LET exit == Head(childExits)
            IN /\ emitted'[1].type = (IF exit.panic THEN "ChildPanicked" ELSE "ChildExited")
               /\ emitted'[1].stack = exit.stack
               /\ \A k \in 2..Len(emitted') :
                    emitted'[k].type \notin {"ChildPanicked", "ChildExited"}
               /\ (exit.panic /\ recs[exit.child].spec.restart \in {"Permanent", "Transient"})
                     => RestartDecided]_vars
    /\ \A r \in 1..MaxRecords :
         (r <= Len(recs) /\ \E k \in 1..Len(recs[r].blocked) : recs[r].blocked[k].panic)
            ~> (r <= Len(recs) /\ recs[r].sent > 0)

(***************************************************************************)
(* C22: the exit of a record whose name was removed, the record being in   *)
(* the sequence no more and its name out of the index, is ignored: the     *)
(* step constructs no record, registers no name, launches no body and      *)
(* stops or replaces no other child, under every strategy and restart      *)
(* type.                                                                   *)
(***************************************************************************)
C22_RemovedExitIgnored ==
    [][(/\ ExitStep
        /\ childMap[recs[Head(childExits).child].spec.name] = 0
        /\ recs[Head(childExits).child].stopped
        /\ \A i \in 1..Len(children) : children[i] # Head(childExits).child) =>
           /\ NothingRestarted
           /\ \A r \in 1..Len(recs) : r # Head(childExits).child => Untouched(r)]_vars

(***************************************************************************)
(* C23: a manual restart does not count against the intensity limit: the   *)
(* step that handles a restart command adds no entry to restartHistory,    *)
(* and neither does the step that handles the exit of the record that a    *)
(* successful RestartChild cancelled, which does not fail the supervisor   *)
(* either.                                                                 *)
(***************************************************************************)
C23_ManualRestartNotCounted ==
    [][/\ (CommandStep /\ Head(commands).action = "restart") =>
             (restartHistory' = restartHistory /\ finalErr' = finalErr)
       /\ (/\ ExitStep
           /\ recs[Head(childExits).child].stopped
           /\ ncalls = 2
           /\ call.prev.action = "add"
           /\ call.action = "restart"
           /\ call.resp = Nil
           /\ call.name = recs[Head(childExits).child].spec.name) =>
             (restartHistory' = restartHistory /\ finalErr' = finalErr)]_vars

C25_RestartedAfterExitEvent ==
    [][\A i \in 1..Len(children) :
          (/\ i <= Len(children')
           /\ children'[i] # children[i]
           /\ \E k \in 1..Len(emitted') :
                /\ emitted'[k].type = "ChildRestarted"
                /\ emitted'[k].name = recs[children[i]].spec.name) =>
             recs'[children[i]].evExit > 0]_vars

(***************************************************************************)
(* C26: the exit of a record that is no longer the record registered under *)
(* its name, another record having taken its place, triggers no restart    *)
(* decision: no entry is added to restartHistory, no backoff is slept, no  *)
(* record is constructed or started and no slot is replaced.               *)
(***************************************************************************)
C26_StaleExitNoRestart ==
    [][(/\ ExitStep
        /\ childMap[recs[Head(childExits).child].spec.name] # 0
        /\ childMap[recs[Head(childExits).child].spec.name] # Head(childExits).child) =>
           /\ ~RestartDecided
           /\ restartHistory' = restartHistory
           /\ now' = now
           /\ NothingRestarted]_vars

(***************************************************************************)
(* C27: a restart command for a registered name is answered nil; it        *)
(* cancels the registered record, puts a new record of the same spec in    *)
(* its position of the sequence and under the name in the index, emits     *)
(* ChildRestarted for the name and starts the new record; every other      *)
(* position keeps its record.                                              *)
(***************************************************************************)
C27_RestartChildReplaces ==
    [][(/\ CommandStep
        /\ Head(commands).action = "restart"
        /\ childMap[Head(commands).name] # 0) =>
           LET name == Head(commands).name
               old == childMap[name]
               new == childMap'[name]
           IN /\ call'.resp = Nil
              /\ recs'[old].cancelled
              /\ new > Len(recs)
              /\ recs'[new].spec = recs[old].spec
              /\ recs'[new].launches = 1
              /\ Len(children') = Len(children)
              /\ \A i \in 1..Len(children) :
                   children'[i] = (IF children[i] = old THEN new ELSE children[i])
              /\ \E k \in 1..Len(emitted') :
                   /\ emitted'[k].type = "ChildRestarted"
                   /\ emitted'[k].name = name]_vars

(***************************************************************************)
(* C28: while a name stays registered, the restartCount of the record      *)
(* registered under it never decreases, whether a strategy restart or a    *)
(* manual restart replaces the record: a replacement carries at least the  *)
(* restartCount of the record it replaces.                                 *)
(***************************************************************************)
C28_RestartCountMonotone ==
    [][\A n \in Names :
          (childMap[n] # 0 /\ childMap'[n] # 0) =>
             recs'[childMap'[n]].restartCount >= recs[childMap[n]].restartCount]_vars

(***************************************************************************)
(* C29: a OneForAll or RestForOne restart emits its ChildRestarted events  *)
(* in the order the children had in the sequence when the exit was taken,  *)
(* one event for each child of the restart set: every child under          *)
(* OneForAll, the children from the failed one on under RestForOne.        *)
(***************************************************************************)
C29_RestartedInSequenceOrder ==
    [][(/\ ExitStep
        /\ strategy \in {"OneForAll", "RestForOne"}
        /\ Restarting
        /\ pc' # "crashed") =>
           LET nm == recs[Head(childExits).child].spec.name
               n == Len(children)
               at == {i \in 1..n : recs[children[i]].spec.name = nm}
               from == IF strategy = "OneForAll" THEN 1
                       ELSE IF at = {} THEN n + 1
                       ELSE CHOOSE i \in at : \A j \in at : i <= j
               restarted == SelectSeq(emitted', LAMBDA e : e.type = "ChildRestarted")
           IN [k \in 1..Len(restarted) |-> restarted[k].name]
                 = [k \in 1..(n - from + 1) |-> recs[children[from + k - 1]].spec.name]]_vars

(* Under OneForAll the exit of the child at the second of two positions    *)
(* has just restarted both children.                                       *)
C29_Witness ==
    /\ strategy = "OneForAll"
    /\ Len(children) = 2
    /\ Len(emitted) = 5
    /\ emitted[1].name = recs[children[2]].spec.name
    /\ emitted[2].type = "ChildRestarted"
    /\ emitted[2].name = recs[children[1]].spec.name
    /\ emitted[4].type = "ChildRestarted"
    /\ emitted[4].name = recs[children[2]].spec.name

(***************************************************************************)
(* C30: the completion signal is released once, when the loop has left its *)
(* select and teardown is over, and it stays released; from then on the    *)
(* loop does nothing more: it takes no command and no exit, emits no       *)
(* event, constructs and stops no record, launches no body, and the        *)
(* sequence, the index, the restart history, the stopped flag and finalErr *)
(* keep their values.                                                      *)
(***************************************************************************)
C30_DoneIsLast ==
    /\ [](done => pc \in {"done", "crashed"})
    /\ [][done =>
            /\ done'
            /\ pc' = pc
            /\ UNCHANGED <<children, childMap, restartHistory, stopped, finalErr,
                           decisions, teardownWaited>>
            /\ Len(commands') >= Len(commands)
            /\ Len(childExits') >= Len(childExits)
            /\ \A k \in 1..Len(emitted') : emitted'[k].by # "loop"
            /\ Len(recs') = Len(recs)
            /\ \A r \in 1..Len(recs) :
                 /\ recs'[r].stopped = recs[r].stopped
                 /\ recs'[r].cancelled = recs[r].cancelled
                 /\ recs'[r].evExit = recs[r].evExit
                 /\ Len(starts') = Len(starts) => recs'[r].launches = recs[r].launches]_vars

(* The signal is released after an orderly teardown while a command sent   *)
(* afterwards and the exit of a cancelled child wait in their channels.    *)
C30_Witness ==
    /\ done
    /\ pc = "done"
    /\ commands # <<>>
    /\ childExits # <<>>
    /\ call.late
    /\ \E w \in 1..Len(waits) : waits[w].ret = Nil

(***************************************************************************)
(* C31: once the supervisor's context is cancelled the loop accepts no new *)
(* work: it handles no further command, and an exit it still handles       *)
(* restarts nothing.                                                       *)
(***************************************************************************)
C31_NoWorkAfterCancel ==
    [][ctxDone =>
          /\ ~CommandStep
          /\ ExitStep => NothingRestarted]_vars

(* A OneForOne supervisor given WithIntensity(MaxRestartsCfg, w) with the   *)
(* window w zero or WindowCfg: WithIntensity stores whatever it is given.  *)
WindowInit ==
    InitWith({"OneForOne"},
             {<<>>, <<[name |-> "a", restart |-> "Permanent", body |-> "any"]>>},
             {0, WindowCfg}, {UsualClient})

WindowSpec == WindowInit /\ [][Next]_vars

(***************************************************************************)
(* C32: right after an intensity check, every entry of restartHistory is   *)
(* strictly later than the time of the check minus restartWindow, whatever *)
(* window was configured, and the entries are in non-decreasing order.     *)
(***************************************************************************)
C32_HistoryWithinWindow ==
    [][(ExitStep /\ RestartDecided) =>
          /\ \A i \in 1..Len(restartHistory') :
               restartHistory'[i] > now - restartWindow
          /\ \A i, j \in 1..Len(restartHistory') :
               i < j => restartHistory'[i] <= restartHistory'[j]]_vars

(***************************************************************************)
(* C33: a step that goes on to a strategy restart waits once, for the      *)
(* delay the backoff policy gives for the restartCount that the record     *)
(* registered under the exiting child's name has before the restart, and   *)
(* does not wait when that delay is not positive.                          *)
(***************************************************************************)
C33_BackoffOfRegisteredRecord ==
    [][(/\ ExitStep
        /\ Restarting
        /\ childMap[recs[Head(childExits).child].spec.name] # 0) =>
           LET registered == childMap[recs[Head(childExits).child].spec.name]
               delay == ComputeDelay(recs[registered].restartCount)
           IN now' = now + (IF delay > 0 THEN delay ELSE 0)]_vars

(***************************************************************************)
(* C34: handling one ChildExit ends in exactly one of three ways: nothing  *)
(* happens, the sequence, the index and restartHistory keeping their       *)
(* values; or children are restarted and ChildRestarted is emitted; or     *)
(* SupervisorFailedIntensity is emitted and the supervisor terminates with *)
(* ErrIntensityExceeded.  The exit of a removed child ends the first way.  *)
(***************************************************************************)
C34_OneOfThreeOutcomes ==
    [][ExitStep =>
          LET exit == Head(childExits)
              nm == recs[exit.child].spec.name
              removed == /\ childMap[nm] = 0
                         /\ \A i \in 1..Len(children) : children[i] # exit.child
              restarted == \E k \in 1..Len(emitted') : emitted'[k].type = "ChildRestarted"
              failed == \E k \in 1..Len(emitted') :
                           emitted'[k].type = "SupervisorFailedIntensity"
              nothing == /\ UNCHANGED <<children, childMap, restartHistory>>
                         /\ Len(recs') = Len(recs)
                         /\ ~restarted
                         /\ ~failed
          IN /\ nothing \/ restarted \/ failed
             /\ ~(restarted /\ failed)
             /\ failed => (pc' = "teardown" /\ stopped' /\ finalErr' = ErrIntensityExceeded)
             /\ restarted => (pc' = "select" /\ finalErr' = finalErr)
             /\ removed => nothing]_vars

(***************************************************************************)
(* C35: every event handed to the sinks is emitted by the goroutine of the *)
(* control loop, the ChildStarted events of the initial children that      *)
(* Start() starts included.                                                *)
(***************************************************************************)
C35_EventsFromLoopOnly ==
    \A k \in 1..Len(emitted) : emitted[k].by = "loop"

(***************************************************************************)
(* The backoff policies on their own: a policy is built from inputs drawn  *)
(* from bounded sets and ComputeDelay is called on it once.                *)
(***************************************************************************)
BasePolicies ==
    {ExponentialBackoff(initial, max) : initial \in 0..MaxDuration, max \in 0..MaxDuration}
        \cup {ConstantBackoff(delay) : delay \in Durations}

BackoffCalls ==
    {[jitter |-> FALSE, policy |-> JitterBackoff(base, 0), restarts |-> n, rand |-> 0,
      build |-> b, delay |-> 0, returned |-> FALSE] :
        base \in BasePolicies, n \in 0..MaxRestartCount, b \in Builds}
    \cup
    {[jitter |-> TRUE, policy |-> JitterBackoff(ConstantBackoff(c.delay), c.factor),
      restarts |-> c.restarts, rand |-> c.rand, build |-> c.build,
      delay |-> 0, returned |-> FALSE] :
        c \in [delay : Durations, factor : (-1)..(FactorDen + 1),
               restarts : 0..MaxRestartCount, rand : (-RandDen)..(RandDen - 1),
               build : Builds]}
    \cup
    {[jitter |-> TRUE, policy |-> JitterBackoff(ExponentialBackoff(c.initial, MaxDuration), c.factor),
      restarts |-> c.restarts, rand |-> c.rand, build |-> c.build,
      delay |-> 0, returned |-> FALSE] :
        c \in [initial : 0..1, factor : 0..FactorDen,
               restarts : 0..MaxRestartCount, rand : (-RandDen)..(RandDen - 1),
               build : Builds]}

BackoffInit ==
    /\ NewSupervisor({"OneForOne"}, {<<>>}, {WindowCfg}, {UsualClient})
    /\ backoffCall \in BackoffCalls

ComputeDelayCall ==
    /\ ~backoffCall.returned
    /\ backoffCall' =
         [backoffCall EXCEPT
            !.returned = TRUE,
            !.delay = IF backoffCall.jitter
                      THEN jitterComputeDelay(backoffCall.policy, backoffCall.restarts,
                                              backoffCall.rand, backoffCall.build)
                      ELSE baseComputeDelay(backoffCall.policy.base, backoffCall.restarts,
                                            backoffCall.build)]
    /\ UNCHANGED <<strategy, maxRestarts, restartWindow, recs, children, childMap, ctxDone,
                   stopped, finalErr, done, pc, childExits, exitsCap, commands, ncalls,
                   call, emitted, restartHistory, now, starts, waits, decisions,
                   teardownWaited, client>>

BackoffSpec == BackoffInit /\ [][ComputeDelayCall]_vars

(* C36: ExponentialBackoff(initial, max).ComputeDelay(n) is the smaller of *)
(* initial * 2^n and max for every n >= 0; in particular it is max when    *)
(* the product is beyond the range of a duration, never a negative or      *)
(* wrapped value.                                                          *)
C36_ExponentialIsCappedProduct ==
    (backoffCall.returned /\ ~backoffCall.jitter
        /\ backoffCall.policy.base.kind = "exponential") =>
      LET e == backoffCall.policy.base
          product == e.initial * Pow2(backoffCall.restarts)
      IN backoffCall.delay = (IF product < e.max THEN product ELSE e.max)

(* C37: JitterBackoff(base, f).ComputeDelay(n), with f clamped to [0, 1],  *)
(* is never negative, lies between base(n)(1 - f) and base(n)(1 + f), and  *)
(* with f = 0 equals base.ComputeDelay(n), for every n.                    *)
C37_JitterWithinFactor ==
    (backoffCall.returned /\ backoffCall.jitter) =>
      LET j == backoffCall.policy
          baseDelay == baseComputeDelay(j.base, backoffCall.restarts, backoffCall.build)
      IN /\ 0 <= j.factor /\ j.factor <= FactorDen
         /\ backoffCall.delay >= 0
         /\ baseDelay * (FactorDen - j.factor) <= backoffCall.delay * FactorDen
         /\ backoffCall.delay * FactorDen <= baseDelay * (FactorDen + j.factor)
         /\ j.factor = 0 => backoffCall.delay = baseDelay

(***************************************************************************)
(* C38: every AddChild, RemoveChild or RestartChild call made while the    *)
(* supervisor runs gets its response, also when it races with Stop(), with *)
(* the cancellation of the context or with the intensity failure: the      *)
(* command does not stay queued without a response (unless the process has *)
(* died of a panic).                                                       *)
(***************************************************************************)
C38_RacingCallAnswered ==
    (~call.late /\ call.resp = "pending") ~> (call.resp # "pending" \/ pc = "crashed")

(***************************************************************************)
(* C39: the body of a record is launched at most once: Start() does not    *)
(* launch again a record that an earlier Start() or an earlier AddChild    *)
(* has launched, and no record delivers two exits.                         *)
(***************************************************************************)
C39_LaunchedAtMostOnce ==
    \A r \in 1..Len(recs) : recs[r].launches <= 1 /\ recs[r].sent <= 1

(* The record registered under name n, in the index and in the sequence,   *)
(* is not Permanent and the loop has processed its exit: n exited and was  *)
(* not restarted.                                                          *)
ExitedNotRestarted(n) ==
    /\ childMap[n] # 0
    /\ \E i \in 1..Len(children) : children[i] = childMap[n]
    /\ recs[childMap[n]].spec.restart # "Permanent"
    /\ recs[childMap[n]].evExit > 0

====
